---- MODULE Spec2Model ----
(***************************************************************************)
(* scripts/setup.py of einops: a one-shot packaging script.  One run of    *)
(* the script imports pathlib and setuptools, evaluates the keyword        *)
(* arguments of setup() in order (the only one that is not a literal is    *)
(* long_description = Path("README.md").read_text()), and calls setup()    *)
(* with them.  The call is the last statement of the file.                 *)
(*                                                                         *)
(* README.md is a file of the environment: a sequence of bytes, or absent, *)
(* or present without read permission.  read_text() with no arguments      *)
(* opens the file in text mode: the bytes are decoded with the process's   *)
(* default (locale) encoding, strictly, and universal-newline translation  *)
(* turns every "\r\n" and every remaining "\r" into "\n".                  *)
(*                                                                         *)
(* The interpreter and an importable setuptools are taken as given: the    *)
(* two import statements always succeed.                                   *)
(***************************************************************************)
EXTENDS Integers, Sequences, FiniteSets, TLC

VARIABLES
    readme,            \* README.md in the working directory: [st, data]
    edits,             \* how many times another process has changed README.md
    run,               \* which invocation of the script this is (1, 2, ...)
    enc,               \* default text encoding of the running process
    pc,                \* next statement of the running script
    long_description,  \* value of the long_description argument once evaluated
    snapshot,          \* README.md as read_text() found it (history variable)
    reads,             \* number of read_text() calls made by this invocation
    error,             \* the exception that ended this invocation, "" if none
    handed,            \* the keyword records setup() has received from this invocation
    prev               \* the previous invocation: what it read and handed over

vars == <<readme, edits, run, enc, pc, long_description, snapshot, reads, error, handed, prev>>

----------------------------------------------------------------------------
(* Bounds of the model. *)

MaxLen == 3

MaxEdits == 2

MaxRuns == 2

----------------------------------------------------------------------------
(* Bytes and encodings. *)

LF == 10

CR == 13

\* The bytes README.md is built from: "\n", "\r", and three bytes above 127:
\* 0xC3 0xA9 is UTF-8 for U+00E9 and 0xC3 0x9D is UTF-8 for U+00DD; taken one
\* by one, 0xC3 and 0xA9 are cp1252 for U+00C3 and U+00A9, and 0x9D is one of
\* the five bytes cp1252 leaves undefined.
Byte == {LF, CR, 157, 169, 195}

Encodings == {"utf-8", "cp1252"}

Cp1252Undefined == {129, 141, 143, 144, 157}

\* All byte strings of length at most n.
RECURSIVE BytesUpTo(_)
BytesUpTo(n) ==
    IF n = 0 THEN {<<>>}
    ELSE LET shorter == BytesUpTo(n - 1)
         IN  shorter \cup {Append(s, b) : s \in {t \in shorter : Len(t) = n - 1}, b \in Byte}

\* Strict UTF-8 decoding of one- and two-byte sequences.  The result is
\* [ok, text]: ok is FALSE when some byte cannot start or continue a sequence.
RECURSIVE Utf8Decode(_)
Utf8Decode(bs) ==
    IF bs = <<>> THEN [ok |-> TRUE, text |-> <<>>]
    ELSE LET b == Head(bs) IN
         IF b < 128
         THEN LET rest == Utf8Decode(Tail(bs))
              IN  [ok |-> rest.ok, text |-> IF rest.ok THEN <<b>> \o rest.text ELSE <<>>]
         ELSE IF b >= 194 /\ b <= 223 /\ Len(bs) >= 2 /\ bs[2] >= 128 /\ bs[2] <= 191
         THEN LET rest == Utf8Decode(Tail(Tail(bs)))
                  cp   == (b - 192) * 64 + (bs[2] - 128)
              IN  [ok |-> rest.ok, text |-> IF rest.ok THEN <<cp>> \o rest.text ELSE <<>>]
         ELSE [ok |-> FALSE, text |-> <<>>]

\* cp1252 ("charmap") decoding: ASCII and 0xA0..0xFF map to the same code
\* point, five bytes are undefined.  (The other bytes of 0x80..0x9F map to
\* code points above 255 and are not in Byte.)
RECURSIVE Cp1252Decode(_)
Cp1252Decode(bs) ==
    IF bs = <<>> THEN [ok |-> TRUE, text |-> <<>>]
    ELSE LET b == Head(bs) IN
         IF b \in Cp1252Undefined
         THEN [ok |-> FALSE, text |-> <<>>]
         ELSE LET rest == Cp1252Decode(Tail(bs))
              IN  [ok |-> rest.ok, text |-> IF rest.ok THEN <<b>> \o rest.text ELSE <<>>]

Decode(e, bs) == IF e = "utf-8" THEN Utf8Decode(bs) ELSE Cp1252Decode(bs)

\* The inverse direction, used to compare a text with the bytes of a file.
RECURSIVE Encode(_, _)
Encode(e, text) ==
    IF text = <<>> THEN <<>>
    ELSE LET c == Head(text) IN
         (IF e = "utf-8" /\ c >= 128
          THEN <<192 + (c \div 64), 128 + (c % 64)>>
          ELSE <<c>>) \o Encode(e, Tail(text))

\* Variant: only "\r\n" is translated, a lone "\r" is kept.
RECURSIVE UniversalNewlines_LoneCRKept(_)
UniversalNewlines_LoneCRKept(text) ==
    IF text = <<>> THEN <<>>
    ELSE IF Head(text) = CR /\ Len(text) >= 2 /\ text[2] = LF
         THEN <<LF>> \o UniversalNewlines_LoneCRKept(Tail(Tail(text)))
         ELSE <<Head(text)>> \o UniversalNewlines_LoneCRKept(Tail(text))

\* Universal-newline translation of a decoded text, as the text layer does
\* it when newline is None: "\r\n" becomes "\n", then any "\r" becomes "\n".
RECURSIVE UniversalNewlines(_)
UniversalNewlines(text) ==
    IF text = <<>> THEN <<>>
    ELSE IF Head(text) = CR
         THEN IF Len(text) >= 2 /\ text[2] = LF
              THEN <<LF>> \o UniversalNewlines(Tail(Tail(text)))
              ELSE <<LF>> \o UniversalNewlines(Tail(text))
         ELSE <<Head(text)>> \o UniversalNewlines(Tail(text))

----------------------------------------------------------------------------
(* The file README.md. *)

Absent == [st |-> "absent", data |-> <<>>]

Denied == [st |-> "denied", data |-> <<>>]

File(bs) == [st |-> "file", data |-> bs]

NoSnapshot == [st |-> "none", data |-> <<>>]

ReadmeStates == {Absent, Denied} \cup {File(bs) : bs \in BytesUpTo(MaxLen)}

\* Variant: a README that cannot be opened reads as the empty text.
ReadText_EmptyOnMissing(f, e) ==
    IF f.st # "file" THEN [exc |-> "", text |-> <<>>]
    ELSE LET d == Decode(e, f.data) IN
         IF d.ok THEN [exc |-> "", text |-> UniversalNewlines(d.text)]
         ELSE [exc |-> "UnicodeDecodeError", text |-> <<>>]

\* Path("README.md").read_text() in a process whose default encoding is e:
\* [exc, text], exc = "" when the call returns text.
ReadText(f, e) ==
    IF f.st = "absent" THEN [exc |-> "FileNotFoundError", text |-> <<>>]
    ELSE IF f.st = "denied" THEN [exc |-> "PermissionError", text |-> <<>>]
    ELSE LET d == Decode(e, f.data) IN
         IF d.ok THEN [exc |-> "", text |-> UniversalNewlines(d.text)]
         ELSE [exc |-> "UnicodeDecodeError", text |-> <<>>]

----------------------------------------------------------------------------
(* The keyword arguments of setup(). *)

Metadata(ld) ==
    [ name |-> "einops",
      version |-> "0.7.0",
      description |-> "A new flavour of deep learning operations",
      long_description |-> ld,
      long_description_content_type |-> "text/markdown",
      url |-> "https://github.com/arogozhnikov/einops",
      author |-> "Alex Rogozhnikov",
      classifiers |-> << "Intended Audience :: Science/Research",
                         "Programming Language :: Python :: 3 ",
                         "License :: OSI Approved :: MIT License" >>,
      keywords |-> "deep learning, neural networks, tensor manipulation, machine learning, scientific computations, einops",
      install_requires |-> <<>> ]

----------------------------------------------------------------------------
(* The state machine. *)

NoPrev == [snapshot |-> NoSnapshot, enc |-> "utf-8", handed |-> <<>>]

Init ==
    /\ readme \in ReadmeStates
    /\ edits = 0
    /\ run = 1
    /\ enc \in Encodings
    /\ pc = "import"
    /\ long_description = <<>>
    /\ snapshot = NoSnapshot
    /\ reads = 0
    /\ error = ""
    /\ handed = <<>>
    /\ prev = NoPrev

\* Lines 8-10: from pathlib import Path; from setuptools import setup.
Import ==
    /\ pc = "import"
    /\ pc' = "read_text"
    /\ UNCHANGED <<readme, edits, run, enc, long_description, snapshot, reads, error, handed, prev>>

\* Variant: the file is opened for update and truncated by the open.
EvalLongDescription_Truncates ==
    /\ pc = "read_text"
    /\ LET r == ReadText(readme, enc) IN
        /\ snapshot' = readme
        /\ reads' = reads + 1
        /\ error' = r.exc
        /\ long_description' = r.text
        /\ pc' = IF r.exc = "" THEN "setup" ELSE "error"
    /\ readme' = IF readme.st = "file" THEN File(<<>>) ELSE readme
    /\ UNCHANGED <<edits, run, enc, handed, prev>>

\* Line 16: long_description=Path("README.md").read_text(), evaluated while
\* the arguments of the call are built.  An exception is not caught anywhere:
\* it ends the script.
EvalLongDescription ==
    /\ pc = "read_text"
    /\ LET r == ReadText(readme, enc) IN
        /\ snapshot' = readme
        /\ reads' = reads + 1
        /\ error' = r.exc
        /\ long_description' = r.text
        /\ pc' = IF r.exc = "" THEN "setup" ELSE "error"
    /\ UNCHANGED <<readme, edits, run, enc, handed, prev>>

\* Variant: the record names a dependency.
CallSetup_AddsDependency ==
    /\ pc = "setup"
    /\ handed' = Append(handed, [Metadata(long_description) EXCEPT !.install_requires = <<"numpy">>])
    /\ pc' = "done"
    /\ UNCHANGED <<readme, edits, run, enc, long_description, snapshot, reads, error, prev>>

\* Variant: the version is taken from the README when it has one.
CallSetup_VersionFromReadme ==
    /\ pc = "setup"
    /\ handed' = Append(handed, [Metadata(long_description) EXCEPT
                     !.version = IF long_description = <<>> THEN "0.7.0" ELSE "0.0.0"])
    /\ pc' = "done"
    /\ UNCHANGED <<readme, edits, run, enc, long_description, snapshot, reads, error, prev>>

\* Variant: setup() is called a second time before the script ends.
CallSetup_Twice ==
    /\ pc = "setup"
    /\ handed' = Append(handed, Metadata(long_description))
    /\ pc' = IF handed = <<>> THEN "setup" ELSE "done"
    /\ UNCHANGED <<readme, edits, run, enc, long_description, snapshot, reads, error, prev>>

\* Lines 12-29: the call setup(name=..., ..., install_requires=[]), the last
\* statement of the script.
CallSetup ==
    /\ pc = "setup"
    /\ handed' = Append(handed, Metadata(long_description))
    /\ pc' = "done"
    /\ UNCHANGED <<readme, edits, run, enc, long_description, snapshot, reads, error, prev>>

\* The script is run again, in a new process with its own default encoding.
Invoke ==
    /\ pc \in {"done", "error"}
    /\ run < MaxRuns
    /\ run' = run + 1
    /\ prev' = [snapshot |-> snapshot, enc |-> enc, handed |-> handed]
    /\ enc' \in Encodings
    /\ pc' = "import"
    /\ long_description' = <<>>
    /\ snapshot' = NoSnapshot
    /\ reads' = 0
    /\ error' = ""
    /\ handed' = <<>>
    /\ UNCHANGED <<readme, edits>>

\* Another process changes README.md: removes it, takes the read permission
\* away, truncates it, or appends a byte to it.
EditReadme ==
    /\ edits < MaxEdits
    /\ edits' = edits + 1
    /\ \E f \in {Absent, Denied, File(<<>>)}
             \cup {File(Append(readme.data, b)) : b \in IF Len(readme.data) < MaxLen THEN Byte ELSE {}} :
          /\ f # readme
          /\ readme' = f
    /\ UNCHANGED <<run, enc, pc, long_description, snapshot, reads, error, handed, prev>>

Next == Import \/ EvalLongDescription \/ CallSetup \/ Invoke \/ EditReadme

Spec == Init /\ [][Next]_vars

TypeOK ==
    /\ readme \in ReadmeStates
    /\ edits \in 0..MaxEdits
    /\ run \in 1..MaxRuns
    /\ enc \in Encodings
    /\ pc \in {"import", "read_text", "setup", "done", "error"}
    /\ reads \in 0..1
    /\ Len(handed) <= 1

----------------------------------------------------------------------------
(* Properties. *)

\* Every record setup() has received, from this invocation or the previous one.
Records == {handed[i] : i \in 1..Len(handed)} \cup {prev.handed[i] : i \in 1..Len(prev.handed)}

\* C1: every metadata record handed to setup() has an empty install_requires,
\* whatever README.md holds.
C1_InstallRequiresEmpty ==
    \A r \in Records : r.install_requires = <<>>

C1_Witness ==
    /\ pc = "done"
    /\ Len(handed) = 1
    /\ snapshot.data # <<>>

\* C2 as stated: the long_description handed to setup(), written back in the
\* encoding it was read with, is byte for byte the README.md that was read.
C2_ExactContents ==
    handed # <<>> => Encode(enc, handed[1].long_description) = snapshot.data

\* The positions of a byte string that survive newline translation: all but
\* the "\r" of each "\r\n" pair.
KeptPositions(bs) == {i \in 1..Len(bs) : ~(bs[i] = CR /\ i < Len(bs) /\ bs[i + 1] = LF)}

\* C2 amended: the long_description handed to setup() is the README.md that
\* was read with each "\r\n" pair and each lone "\r" replaced by one "\n", and
\* nothing else added, removed or changed; for a README.md without "\r" it is
\* the exact contents.
C2_ContentsUpToNewlines ==
    handed # <<>> =>
        LET ld   == Encode(enc, handed[1].long_description)
            bs   == snapshot.data
            kept == KeptPositions(bs)
            at(j) == CHOOSE i \in kept : Cardinality({m \in kept : m <= i}) = j
        IN  /\ snapshot.st = "file"
            /\ Len(ld) = Cardinality(kept)
            /\ \A j \in 1..Len(ld) : ld[j] = IF bs[at(j)] = CR THEN LF ELSE bs[at(j)]
            /\ (\A i \in 1..Len(bs) : bs[i] # CR) => ld = bs

C2_Witness ==
    /\ handed # <<>>
    /\ \E i \in 1..Len(snapshot.data) : snapshot.data[i] = CR
    /\ \E i \in 1..Len(handed[1].long_description) : handed[1].long_description[i] = LF

\* C3 as stated: two invocations that read the same README.md hand over equal
\* records.
C3_SameReadmeSameRecord ==
    (handed # <<>> /\ prev.handed # <<>> /\ prev.snapshot = snapshot) => handed = prev.handed

\* C4: when README.md is absent or unreadable at the read, the invocation ends
\* in an error, setup() receives nothing, and the invocation never leaves the
\* error state.
C4_FailedReadIsFatal ==
    /\ [](snapshot.st \in {"absent", "denied"} =>
            /\ pc = "error"
            /\ error \in {"FileNotFoundError", "PermissionError"}
            /\ handed = <<>>)
    /\ [][(pc = "error" /\ run' = run) => (pc' = "error" /\ handed' = <<>> /\ reads' = reads)]_vars

C4_Witness ==
    /\ pc = "error"
    /\ snapshot.st \in {"absent", "denied"}
    /\ readme.st = "file"

\* C5 as stated: an invocation fails only when README.md was absent or
\* unreadable at the read.
C5_OnlyMissingReadmeFails ==
    pc = "error" => snapshot.st \in {"absent", "denied"}

\* C6: within one invocation setup() receives at most one record, and once it
\* has, the script does nothing more: the record, the value read and the
\* position of the script stay as they are while README.md may change.
C6_HandedOnceThenFrozen ==
    /\ [](Len(handed) <= 1)
    /\ [](handed # <<>> => pc = "done")
    /\ [][(handed # <<>> /\ run' = run) =>
            (handed' = handed /\ pc' = pc /\ long_description' = long_description /\ reads' = reads)]_vars
    /\ [][(reads = 1 /\ run' = run) => long_description' = long_description]_vars

C6_Witness ==
    /\ Len(handed) = 1
    /\ pc = "done"
    /\ readme # snapshot

\* C7: an invocation that has ended, with a record or with an error, has
\* called read_text() exactly once, and no step of the script changes
\* README.md.
C7_OneReadNoWrite ==
    /\ [](pc \in {"done", "error"} => reads = 1)
    /\ [](reads <= 1)
    /\ [][edits' = edits => readme' = readme]_vars

C7_Witness ==
    /\ pc \in {"done", "error"}
    /\ reads = 1
    /\ readme = snapshot
    /\ readme.data # <<>>

\* C8: any two records handed to setup() agree on every field other than
\* long_description, and classifiers is a list of three strings.
C8_OnlyLongDescriptionVaries ==
    \A r1 \in Records : \A r2 \in Records :
        /\ r1.name = r2.name
        /\ r1.version = r2.version
        /\ r1.description = r2.description
        /\ r1.long_description_content_type = r2.long_description_content_type
        /\ r1.url = r2.url
        /\ r1.author = r2.author
        /\ r1.classifiers = r2.classifiers
        /\ Len(r1.classifiers) = 3
        /\ r1.keywords = r2.keywords
        /\ r1.install_requires = r2.install_requires

C8_Witness ==
    /\ Len(handed) = 1
    /\ Len(prev.handed) = 1
    /\ handed[1].long_description # prev.handed[1].long_description
    /\ handed[1].long_description # <<>>
    /\ prev.handed[1].long_description # <<>>

====
